---- MODULE Spec2Model ----
(***************************************************************************)
(* Model of server.js: an Express relay with four routes (POST /upload,    *)
(* DELETE /delete/:public_id, GET /images, GET /) in front of the          *)
(* Cloudinary SDK.  Each async handler is split at its awaits: one action  *)
(* runs the handler up to the await, the next one runs from the provider's *)
(* reply to the following await or to the response.  Requests are handled  *)
(* concurrently; the provider's asset store and the uploads/ staging       *)
(* directory are the only state that outlives a request.  A provider       *)
(* operation takes effect at the moment its reply resumes the handler; a   *)
(* provider call may also be rejected with an error carrying a message.    *)
(***************************************************************************)
EXTENDS Integers, Sequences, FiniteSets, TLC

VARIABLES store, nextNew, uploads, reqs

vars == <<store, nextNew, uploads, reqs>>

----------------------------------------------------------------------------
(* Bounds of the model *)

\* requests received in one run of the small specification
MaxReqs == 3
\* requests received in one run of the large-store specification
MaxReqsBig == 2
\* requests whose handler is suspended at an await at the same time
MaxInFlight == 2
\* assets already under the folder when the server starts (small store)
MaxInitAssets == 1
\* assets the large store holds beyond the page size
MaxExtra == 1

----------------------------------------------------------------------------
(* JSON values: strings, numbers and nested objects are kept apart *)

JStr(s) == [str |-> s]
JNum(n) == [num |-> n]
JObj(o) == [obj |-> o]

None == [none |-> TRUE]

\* messages a rejected provider call can carry
Messages == {"timeout", "quota exceeded"}

----------------------------------------------------------------------------
(* Configuration *)

FOLDER == "portfolio-gallery"

MAX_RESULTS == 200

\* variant: a larger page is requested than the configured one
ListOptions_Larger == [type |-> "upload", prefix |-> <<FOLDER, "/">>, max_results |-> MAX_RESULTS + MAX_RESULTS]

\* options object passed to cloudinary.api.resources
ListOptions == [type |-> "upload", prefix |-> <<FOLDER, "/">>, max_results |-> MAX_RESULTS]

\* options object passed to cloudinary.uploader.upload
UploadOptions == [folder |-> FOLDER, use_filename |-> TRUE, unique_filename |-> TRUE, overwrite |-> FALSE]

----------------------------------------------------------------------------
(* The provider (Cloudinary), seen through its three remote operations *)

Min(a, b) == IF a <= b THEN a ELSE b

\* the provider's resource record of the asset with public id <<kind, n>>
Resource(id) ==
    [ asset_id   |-> JStr(<<"asset", id>>),
      public_id  |-> JStr(id),
      format     |-> JStr(IF id[2] % 2 = 0 THEN "png" ELSE "jpg"),
      width      |-> JNum(10 + id[2]),
      height     |-> JNum(20 + id[2]),
      bytes      |-> JNum(100 + id[2]),
      created_at |-> JStr(<<"created", id>>),
      url        |-> JStr(<<"http", id>>),
      secure_url |-> JStr(<<"https", id>>) ]

InStore(id) == \E i \in 1..Len(store) : store[i] = id

\* the store once the asset with that public id is removed
Without(s, id) ==
    LET Keep(x) == x # id IN SelectSeq(s, Keep)

\* create-asset: with unique_filename the provider derives a fresh public id
UploaderUploadId(options) ==
    IF options.unique_filename THEN <<"new", nextNew>> ELSE <<"new", 1>>

\* destroy-asset(public_id) -> {result}
UploaderDestroyReply(publicId) ==
    [result |-> JStr(IF InStore(publicId) THEN "ok" ELSE "not found")]

\* list-assets(prefix, max_results) -> {resources: [...]}: the first page only
ApiResourcesReply(options) ==
    [resources |-> [i \in 1..Min(options.max_results, Len(store)) |-> Resource(store[i])]]

----------------------------------------------------------------------------
(* Responses built by the handlers *)

\* variant: the status is left at its default
NoFileResponse_NoStatus == [status |-> 200, body |-> [error |-> JStr("No file")]]

\* res.status(400).json({ error: "No file" })
NoFileResponse == [status |-> 400, body |-> [error |-> JStr("No file")]]

\* variant: a fixed message replaces the provider's
ErrorResponse_Generic(err) == [status |-> 500, body |-> [error |-> JStr("Internal Server Error")]]

\* res.status(500).json({ error: err.message })
ErrorResponse(err) == [status |-> 500, body |-> [error |-> JStr(err.message)]]

\* res.json({ url: result.secure_url, public_id: result.public_id })
UploadResponse(result) ==
    [status |-> 200, body |-> [url |-> result.secure_url, public_id |-> result.public_id]]

\* variant: the rejection of fs.unlink is not caught and reaches the catch block
AfterUnlink_Propagate(result, unlinked) ==
    IF unlinked THEN UploadResponse(result)
    ELSE [status |-> 500, body |-> [error |-> JStr("ENOENT")]]

\* await fs.unlink(req.file.path).catch(() => {}); return res.json(...)
AfterUnlink(result, unlinked) == UploadResponse(result)

\* variant: a missing asset is reported as a local 404
DeleteResponse_Local404(result) ==
    IF result.result = JStr("not found")
    THEN [status |-> 404, body |-> [error |-> JStr("not found")]]
    ELSE [status |-> 200, body |-> [result |-> JObj(result)]]

\* const result = await destroy(publicId); res.json({ result })
DeleteResponse(result) == [status |-> 200, body |-> [result |-> JObj(result)]]

\* variant: the plain url is projected instead of the secure one
ProjectImage_PlainUrl(r) ==
    [ url        |-> r.url,
      public_id  |-> r.public_id,
      width      |-> r.width,
      height     |-> r.height,
      format     |-> r.format,
      created_at |-> r.created_at ]

\* r => ({ url: r.secure_url, public_id: r.public_id, width, height, format, created_at })
ProjectImage(r) ==
    [ url        |-> r.secure_url,
      public_id  |-> r.public_id,
      width      |-> r.width,
      height     |-> r.height,
      format     |-> r.format,
      created_at |-> r.created_at ]

\* (response.resources || []).map(...)
ImagesOf(response) ==
    IF "resources" \in DOMAIN response
    THEN [i \in 1..Len(response.resources) |-> ProjectImage(response.resources[i])]
    ELSE <<>>

ImagesResponse(response) == [status |-> 200, body |-> ImagesOf(response)]

\* res.send("Cloudinary admin server running")
RootResponse == [status |-> 200, body |-> JStr("Cloudinary admin server running")]

\* variant: the identifier is not taken from the path
PublicIdParam_Wrong(params) == <<"old", 1>>

\* const publicId = req.params.public_id
PublicIdParam(params) == params.public_id

----------------------------------------------------------------------------
(* Requests *)

Done(q) == q.pc = "done"

InFlight == {r \in 1..Len(reqs) : ~Done(reqs[r])}

\* request q was answered 200 by the upload handler with public id p
UploadedOk(q, p) ==
    /\ q.kind = "upload" /\ Done(q) /\ q.resp.status = 200
    /\ q.reply.public_id = JStr(p)

\* request q was answered 200 by the delete handler for public id p, the
\* provider's reply being its success indicator
DeletedOk(q, p) ==
    /\ q.kind = "delete" /\ Done(q) /\ q.param = p
    /\ q.resp.status = 200 /\ q.reply.result = JStr("ok")

\* an upload answered 200 has returned public id p
UploadedBefore(p) == \E u \in 1..Len(reqs) : UploadedOk(reqs[u], p)

\* a delete of public id p has been answered 200 with the provider's success reply
DeletedBefore(p) == \E d \in 1..Len(reqs) : DeletedOk(reqs[d], p)

\* public ids returned by an answered upload and then deleted by a delete that
\* was received after that answer and answered with success
Gone ==
    { reqs[d].param : d \in { d \in 1..Len(reqs) :
        DeletedOk(reqs[d], reqs[d].param) /\ reqs[d].afterUpload } }

NewReq(kind) ==
    [ kind |-> kind, pc |-> "done", hasFile |-> FALSE,
      param |-> <<"none", 0>>, id |-> <<"none", 0>>,
      calls |-> 0, reply |-> None, resp |-> None, unlinkFailed |-> FALSE,
      afterUpload |-> FALSE, again |-> FALSE, existed |-> FALSE, gone |-> {} ]

\* ids a client may name in DELETE /delete/:public_id
DeleteIds == {<<"old", 1>>} \cup {<<"new", k>> : k \in 1..nextNew}

----------------------------------------------------------------------------
(* POST /upload *)

ReceiveUpload(lim) ==
    /\ Len(reqs) < lim
    /\ \E hasFile \in BOOLEAN :
         IF ~hasFile
         THEN /\ reqs' = Append(reqs, [NewReq("upload") EXCEPT
                            !.resp = NoFileResponse])
              /\ UNCHANGED uploads
         ELSE /\ Cardinality(InFlight) < MaxInFlight
              /\ reqs' = Append(reqs, [NewReq("upload") EXCEPT
                            !.hasFile = TRUE, !.pc = "awaitUpload", !.calls = 1])
              /\ uploads' = uploads \cup {Len(reqs) + 1}
    /\ UNCHANGED <<store, nextNew>>

\* variant: a rejected upload is issued a second time
UploadReturn_Retry(r) ==
    /\ r \in 1..Len(reqs)
    /\ reqs[r].pc = "awaitUpload"
    /\ \/ LET id == <<"new", nextNew>>
              result == Resource(id)
          IN /\ store' = Append(store, id)
             /\ nextNew' = nextNew + 1
             /\ reqs' = [reqs EXCEPT ![r].reply = result, ![r].pc = "awaitUnlink"]
       \/ \E m \in Messages :
            LET err == [message |-> m]
            IN /\ reqs' = IF reqs[r].calls < 2
                          THEN [reqs EXCEPT ![r].calls = reqs[r].calls + 1]
                          ELSE [reqs EXCEPT ![r].reply = err,
                                            ![r].resp = ErrorResponse(err),
                                            ![r].pc = "done"]
               /\ UNCHANGED <<store, nextNew>>
    /\ UNCHANGED uploads

UploadReturn(r) ==
    /\ r \in 1..Len(reqs)
    /\ reqs[r].pc = "awaitUpload"
    /\ \/ LET id == UploaderUploadId(UploadOptions)
              result == Resource(id)
          IN /\ store' = Append(store, id)
             /\ nextNew' = nextNew + 1
             /\ reqs' = [reqs EXCEPT ![r].reply = result, ![r].pc = "awaitUnlink"]
       \/ \E m \in Messages :
            LET err == [message |-> m]
            IN /\ reqs' = [reqs EXCEPT ![r].reply = err,
                                       ![r].resp = ErrorResponse(err),
                                       ![r].pc = "done"]
               /\ UNCHANGED <<store, nextNew>>
    /\ UNCHANGED uploads

UnlinkReturn(r) ==
    /\ r \in 1..Len(reqs)
    /\ reqs[r].pc = "awaitUnlink"
    /\ \E unlinked \in BOOLEAN :
         /\ uploads' = IF unlinked THEN uploads \ {r} ELSE uploads
         /\ reqs' = [reqs EXCEPT ![r].unlinkFailed = ~unlinked,
                                 ![r].resp = AfterUnlink(reqs[r].reply, unlinked),
                                 ![r].pc = "done"]
    /\ UNCHANGED <<store, nextNew>>

----------------------------------------------------------------------------
(* DELETE /delete/:public_id *)

ReceiveDelete(lim) ==
    /\ Len(reqs) < lim
    /\ Cardinality(InFlight) < MaxInFlight
    /\ \E p \in DeleteIds :
         reqs' = Append(reqs, [NewReq("delete") EXCEPT
                    !.param = p,
                    !.id = PublicIdParam([public_id |-> p]),
                    !.again = DeletedBefore(p),
                    !.afterUpload = UploadedBefore(p),
                    !.pc = "awaitDestroy", !.calls = 1])
    /\ UNCHANGED <<store, nextNew, uploads>>

DeleteReturn(r) ==
    /\ r \in 1..Len(reqs)
    /\ reqs[r].pc = "awaitDestroy"
    /\ \/ LET result == UploaderDestroyReply(reqs[r].id)
          IN /\ store' = Without(store, reqs[r].id)
             /\ reqs' = [reqs EXCEPT ![r].reply = result,
                                     ![r].existed = InStore(reqs[r].param),
                                     ![r].resp = DeleteResponse(result),
                                     ![r].pc = "done"]
       \/ \E m \in Messages :
            LET err == [message |-> m]
            IN /\ reqs' = [reqs EXCEPT ![r].reply = err,
                                       ![r].existed = InStore(reqs[r].param),
                                       ![r].resp = ErrorResponse(err),
                                       ![r].pc = "done"]
               /\ UNCHANGED store
    /\ UNCHANGED <<nextNew, uploads>>

----------------------------------------------------------------------------
(* GET /images *)

ReceiveImages(lim) ==
    /\ Len(reqs) < lim
    /\ Cardinality(InFlight) < MaxInFlight
    /\ reqs' = Append(reqs, [NewReq("images") EXCEPT
                  !.gone = Gone, !.pc = "awaitResources", !.calls = 1])
    /\ UNCHANGED <<store, nextNew, uploads>>

ImagesReturn(r) ==
    /\ r \in 1..Len(reqs)
    /\ reqs[r].pc = "awaitResources"
    /\ \/ \E response \in {ApiResourcesReply(ListOptions)} \cup
                          (IF store = <<>> THEN {[next_cursor |-> None]} ELSE {}) :
            reqs' = [reqs EXCEPT ![r].reply = response,
                                 ![r].resp = ImagesResponse(response),
                                 ![r].pc = "done"]
       \/ \E m \in Messages :
            LET err == [message |-> m]
            IN reqs' = [reqs EXCEPT ![r].reply = err,
                                    ![r].resp = ErrorResponse(err),
                                    ![r].pc = "done"]
    /\ UNCHANGED <<store, nextNew, uploads>>

----------------------------------------------------------------------------
(* GET / *)

ReceiveRoot(lim) ==
    /\ Len(reqs) < lim
    /\ reqs' = Append(reqs, [NewReq("root") EXCEPT
                  !.resp = RootResponse])
    /\ UNCHANGED <<store, nextNew, uploads>>

----------------------------------------------------------------------------
(* Specifications *)

InitWith(counts) ==
    /\ \E n \in counts : store = [i \in 1..n |-> <<"old", i>>]
    /\ nextNew = 1
    /\ uploads = {}
    /\ reqs = <<>>

Init == InitWith(0..MaxInitAssets)

InitBig == InitWith((MAX_RESULTS - 1)..(MAX_RESULTS + MaxExtra))

Next ==
    \/ ReceiveUpload(MaxReqs)
    \/ ReceiveDelete(MaxReqs)
    \/ ReceiveImages(MaxReqs)
    \/ ReceiveRoot(MaxReqs)
    \/ \E r \in 1..Len(reqs) : UploadReturn(r)
    \/ \E r \in 1..Len(reqs) : UnlinkReturn(r)
    \/ \E r \in 1..Len(reqs) : DeleteReturn(r)
    \/ \E r \in 1..Len(reqs) : ImagesReturn(r)

NextBig ==
    \/ ReceiveUpload(MaxReqsBig)
    \/ ReceiveDelete(MaxReqsBig)
    \/ ReceiveImages(MaxReqsBig)
    \/ ReceiveRoot(MaxReqsBig)
    \/ \E r \in 1..Len(reqs) : UploadReturn(r)
    \/ \E r \in 1..Len(reqs) : UnlinkReturn(r)
    \/ \E r \in 1..Len(reqs) : DeleteReturn(r)
    \/ \E r \in 1..Len(reqs) : ImagesReturn(r)

Spec == Init /\ [][Next]_vars

SpecBig == InitBig /\ [][NextBig]_vars

----------------------------------------------------------------------------
(* Properties *)

Reqs == {reqs[r] : r \in 1..Len(reqs)}

\* the provider call of request q returned a reply / raised an error
Replied(q) == Done(q) /\ q.calls > 0 /\ "message" \notin DOMAIN q.reply
Raised(q) == Done(q) /\ q.calls > 0 /\ "message" \in DOMAIN q.reply

\* the response carries the provider's outcome indicator s
Indicates(resp, s) ==
    /\ "result" \in DOMAIN resp.body
    /\ \/ resp.body.result = JStr(s)
       \/ resp.body.result = JObj([result |-> JStr(s)])

\* C1: once an upload with a staged file has been answered, the staged file is
\* gone, on the 200 path and on the 500 path alike (a removal that was
\* attempted and failed is left aside, removal being best-effort).
C1_StagedFileRemoved ==
    \A r \in 1..Len(reqs) :
        (reqs[r].kind = "upload" /\ reqs[r].hasFile /\ Done(reqs[r]) /\ ~reqs[r].unlinkFailed)
            => r \notin uploads

\* C2: an upload without a file part is answered 400 with an error field and
\* no provider call is issued for it.
C2_NoFileIs400 ==
    \A q \in Reqs :
        (q.kind = "upload" /\ ~q.hasFile)
            => /\ Done(q)
               /\ q.resp.status = 400
               /\ "error" \in DOMAIN q.resp.body
               /\ q.calls = 0

C2_Witness ==
    \E q \in Reqs : q.kind = "upload" /\ ~q.hasFile /\ Done(q) /\ q.resp.status = 400

\* C3: when the destroy call returns, the delete is answered 200 with body
\* { result: X }, X being the result member of the provider's reply itself.
C3_DeleteRelaysIndicator ==
    \A q \in Reqs :
        (q.kind = "delete" /\ Replied(q))
            => /\ q.resp.status = 200
               /\ q.resp.body = [result |-> q.reply.result]

\* C4: in the three handlers a provider error is answered 500 with body
\* { error: m }, m being the provider's message; never 200 or 400.
C4_ProviderErrorIs500 ==
    \A q \in Reqs :
        Raised(q)
            => /\ q.kind \in {"upload", "delete", "images"}
               /\ q.resp.status = 500
               /\ q.resp.body = [error |-> JStr(q.reply.message)]

C4_Witness ==
    /\ \A k \in {"upload", "delete", "images"} : \E q \in Reqs : q.kind = k /\ Raised(q)
    /\ \E q1 \in Reqs : \E q2 \in Reqs :
         Raised(q1) /\ Raised(q2) /\ q1.reply.message # q2.reply.message

ImageFields == {"url", "public_id", "width", "height", "format", "created_at"}

\* C5: a successful list response has one element per resource of the
\* provider's reply, in the same order, each with exactly the six fields, each
\* equal to the resource's field (url from secure_url).
C5_ImagesProjection ==
    \A q \in Reqs :
        (q.kind = "images" /\ Replied(q) /\ "resources" \in DOMAIN q.reply)
            => /\ q.resp.status = 200
               /\ Len(q.resp.body) = Len(q.reply.resources)
               /\ \A i \in 1..Len(q.resp.body) :
                    LET e == q.resp.body[i]
                        res == q.reply.resources[i]
                    IN /\ DOMAIN e = ImageFields
                       /\ e.url = res.secure_url
                       /\ e.public_id = res.public_id
                       /\ e.width = res.width
                       /\ e.height = res.height
                       /\ e.format = res.format
                       /\ e.created_at = res.created_at

C5_Witness ==
    \E q \in Reqs :
        /\ q.kind = "images" /\ Replied(q) /\ "resources" \in DOMAIN q.reply
        /\ Len(q.resp.body) >= 2
        /\ q.resp.body[1].public_id # q.resp.body[2].public_id

C8_DeletedNotListed ==
    \A q \in Reqs :
        (q.kind = "images" /\ Replied(q) /\ q.resp.status = 200)
            => \A i \in 1..Len(q.resp.body) :
                 \A p \in q.gone : q.resp.body[i].public_id # JStr(p)

C8_Witness ==
    \E q \in Reqs :
        /\ q.kind = "images" /\ Replied(q) /\ q.resp.status = 200
        /\ q.gone # {}
        /\ Len(q.resp.body) >= 1

ExpectedCalls(q) ==
    IF q.kind = "root" \/ (q.kind = "upload" /\ ~q.hasFile) THEN 0 ELSE 1

\* C9: a request causes at most one provider call: exactly one for an upload
\* with a file, a delete and a list, none for an upload without a file and for
\* GET /; a failed call is not issued again.
C9_OneProviderCall ==
    \A q \in Reqs :
        /\ q.calls <= 1
        /\ q.calls = ExpectedCalls(q)

C9_Witness ==
    /\ \E q \in Reqs : q.kind = "upload" /\ Raised(q) /\ q.calls = 1
    /\ \E q \in Reqs : q.kind = "root" /\ Done(q) /\ q.calls = 0

\* C10: when the upload call succeeds and the removal of the staged file
\* fails, the client is still answered 200 with { url, public_id } of the
\* provider's reply.
C10_CleanupFailureSwallowed ==
    \A r \in 1..Len(reqs) :
        (reqs[r].kind = "upload" /\ Done(reqs[r]) /\ reqs[r].unlinkFailed)
            => /\ reqs[r].resp.status = 200
               /\ reqs[r].resp.body = [url |-> reqs[r].reply.secure_url,
                                       public_id |-> reqs[r].reply.public_id]

C10_Witness ==
    \E r \in 1..Len(reqs) :
        /\ reqs[r].kind = "upload" /\ Done(reqs[r]) /\ reqs[r].unlinkFailed
        /\ r \in uploads
        /\ reqs[r].resp.status = 200

====
